---- MODULE Spec2Model ----
(***************************************************************************)
(* A model of the getaways REST backend: the user/authentication routes,   *)
(* the review routes with the rating aggregation they trigger, and the     *)
(* global error handler.  Every handler is one action; the asynchronous    *)
(* rating recalculation is a job with its own steps.                       *)
(*                                                                         *)
(* Optional fields (undefined in JavaScript) are sequences: << >> is       *)
(* undefined and <<v>> is the value v.  Times are milliseconds.            *)
(***************************************************************************)
EXTENDS Integers, Sequences, FiniteSets, TLC

VARIABLES
    nodeEnv,      \* process.env.NODE_ENV
    now,          \* Date.now(), in milliseconds
    users,        \* the User collection: _id -> document
    tokens,       \* JWTs the server has signed and clients still hold
    resp,         \* the request handled by the last step and its response
    reviews,      \* the Review collection: _id -> document
    reviewCount,  \* number of review _ids handed out so far
    tours,        \* the rating fields of the Tour collection: _id -> fields
    jobs,         \* requests and recalculations that are between two awaits
    err           \* the error handed to the global error handler, and the URL

vars == <<nodeEnv, now, users, tokens, resp,
          reviews, reviewCount, tours, jobs, err>>

userVars   == <<users, tokens>>
reviewVars == <<reviews, reviewCount, tours, jobs>>

Undefined == << >>
Some(v) == <<v>>

Envs == {"development", "production"}

ApiUrl == "/api/v1/x"
PageUrl == "/x"
ApiPrefix == "/api"

(***************************************************************************)
(* Errors.  An error object is a record: name is its name, nameOwn tells   *)
(* whether name is an own enumerable property (set in the constructor) or  *)
(* inherited from the prototype, code is the MongoDB error code (0 when    *)
(* absent), statusCode is 0 when absent, status is "" when absent.         *)
(***************************************************************************)
AppError(message, statusCode) ==
    [name |-> "Error", nameOwn |-> FALSE, code |-> 0,
     statusCode |-> statusCode,
     status |-> IF statusCode \div 100 = 4 THEN "fail" ELSE "error",
     isOperational |-> TRUE, message |-> message]

LibError(name, nameOwn, code, message) ==
    [name |-> name, nameOwn |-> nameOwn, code |-> code, statusCode |-> 0,
     status |-> "", isOperational |-> FALSE, message |-> message]

\* jsonwebtoken sets this.name in the constructors of its errors
JsonWebTokenError == LibError("JsonWebTokenError", TRUE, 0, "invalid signature")
JwtMalformedError == LibError("JsonWebTokenError", TRUE, 0, "jwt malformed")
TokenExpiredError == LibError("TokenExpiredError", TRUE, 0, "jwt expired")
\* the MongoDB driver copies code and errmsg onto the error and sets name
DuplicateKeyError == LibError("MongoError", TRUE, 11000, "E11000 duplicate key error")
\* Mongoose sets name in the constructor or on the prototype, by version
ValidationError(own) == LibError("ValidationError", own, 0, "Validation failed")
CastError(own) == LibError("CastError", own, 0, "Cast to ObjectId failed")
TypeError(message) == LibError("TypeError", FALSE, 0, message)

MsgCast == "Invalid path: value."
MsgDuplicate == "Duplicate field value: value. Please use another value."
MsgValidation == "Invalid input data. errors"
MsgJWT == "Invalid token. Please log in again."
MsgJWTExpired == "Token expired. Please log in again."
MsgWentWrong == "Something went wrong"
MsgTryLater == "Please try again later"

handleCastErrorDB(e) == AppError(MsgCast, 400)
handleDuplicateFieldsDB(e) == AppError(MsgDuplicate, 400)
handleValidationErrorDB(e) == AppError(MsgValidation, 400)
handleJWTError == AppError(MsgJWT, 401)
handleJWTExpiredError == AppError(MsgJWTExpired, 401)

startsWith(s, prefix) ==
    /\ Len(s) >= Len(prefix)
    /\ SubSeq(s, 1, Len(prefix)) = prefix

startsWithApi(url) == startsWith(url, ApiPrefix)

\* A response: the HTTP status code, how the body is produced, and what the
\* body carries (status text, message, and whether it carries the stack).
Response(code, kind, status, message, stack) ==
    [code |-> code, kind |-> kind, status |-> status, message |-> message,
     stack |-> stack]

\* no request has been handled by the last step
NoResp == [op |-> "none"]

sendErrorDev(e, url) ==
    IF startsWithApi(url)
    THEN Response(e.statusCode, "json", e.status, e.message, TRUE)
    ELSE Response(e.statusCode, "render", "", e.message, FALSE)

sendErrorProdAnyMessage(e, url) ==
    Response(e.statusCode, IF startsWithApi(url) THEN "json" ELSE "render",
             e.status, e.message, FALSE)

sendErrorProd(e, url) ==
    IF startsWithApi(url)
    THEN IF e.isOperational
         THEN Response(e.statusCode, "json", e.status, e.message, FALSE)
         ELSE Response(500, "json", "error", MsgWentWrong, FALSE)
    ELSE IF e.isOperational
         THEN Response(e.statusCode, "render", "", e.message, FALSE)
         ELSE Response(e.statusCode, "render", "", MsgTryLater, FALSE)

\* let error = { ...err }; error.message = err.message
spreadError(e) == [e EXCEPT !.name = IF e.nameOwn THEN e.name ELSE ""]

convertError(e) ==
    LET e1 == IF e.name = "CastError" THEN handleCastErrorDB(e) ELSE e
        e2 == IF e1.code = 11000 THEN handleDuplicateFieldsDB(e1) ELSE e1
        e3 == IF e2.name = "ValidationError" THEN handleValidationErrorDB(e2) ELSE e2
        e4 == IF e3.name = "JsonWebTokenError" THEN handleJWTError ELSE e3
        e5 == IF e4.name = "TokenExpiredError" THEN handleJWTExpiredError ELSE e4
    IN e5

globalErrorHandler(e, url, env) ==
    LET d == [e EXCEPT !.statusCode = IF e.statusCode # 0 THEN e.statusCode ELSE 500,
                       !.status = IF e.status # "" THEN e.status ELSE "error"]
    IN IF env = "development" THEN sendErrorDev(d, url)
       ELSE sendErrorProd(convertError(spreadError(d)), url)

(***************************************************************************)
(* Bounds of the model and constants of the program.                       *)
(***************************************************************************)
MaxUserId == 3           \* the user _ids a request can name
MaxTokens == 1           \* signed JWTs that clients keep
StartNow == 2000         \* the clock at the first step
MaxShortTicks == 2       \* half seconds the clock can advance by

JwtExpiresIn == 601                 \* process.env.JWT_EXPIRES_IN, in seconds
ResetTokenLifetime == 10 * 60 * 1000
PasswordChangedSkew == 1000
MinPasswordLength == 8

\* the instants at which requests arrive
\* the instants at which requests arrive: within a second of the start,
\* and the same one reset-token lifetime later
Instants ==
    {StartNow + a * 500 + b :
        a \in 0..MaxShortTicks, b \in {0, ResetTokenLifetime}}

UserIds == 1..MaxUserId
Emails == {"ann@x.io", "bob@x.io", "cat@x.io"}
DefaultPhoto == <<"default.jpg">>

(***************************************************************************)
(* Library primitives.                                                     *)
(***************************************************************************)
\* bcrypt.hash: the stored value is never the plain text
bcryptHash(password) == "bcrypt:" \o password

\* crypto.createHash('sha256').update(x).digest('hex'); tokens are sequences
sha256(x) == <<"sha256">> \o x

\* jwt.sign({ id }, secret, { expiresIn }): iat and exp are whole seconds
signToken(id) ==
    [id |-> id, iat |-> now \div 1000, exp |-> (now \div 1000) + JwtExpiresIn,
     sig |-> "ok"]

\* jwt.verify: the signature first, then the expiry
jwtVerify(token) ==
    IF token.sig = "malformed" THEN [ok |-> FALSE, error |-> JwtMalformedError]
    ELSE IF token.sig # "ok" THEN [ok |-> FALSE, error |-> JsonWebTokenError]
    ELSE IF (now \div 1000) >= token.exp THEN [ok |-> FALSE, error |-> TokenExpiredError]
    ELSE [ok |-> TRUE, decoded |-> token]

(***************************************************************************)
(* The User model.                                                         *)
(***************************************************************************)
NewUser(name, email, role, password) ==
    [name |-> name, email |-> email, photo |-> DefaultPhoto, role |-> role,
     password |-> bcryptHash(password), passwordChangedAt |-> Undefined,
     passwordResetToken |-> Undefined, passwordResetExpires |-> Undefined,
     active |-> TRUE]

\* userSchema.pre(/^find/): every find query also asks for active != false
activeUsers == {i \in DOMAIN users : users[i].active # FALSE}

findById(id) == IF id \in activeUsers THEN Some(id) ELSE Undefined

\* findOne answers the first document, in _id order, among those that match
firstOf(found) ==
    IF found = {} THEN Undefined
    ELSE Some(CHOOSE i \in found : \A j \in found : i <= j)

\* User.findOne({ email })
findOneByEmail(email) == firstOf({i \in activeUsers : users[i].email = email})

correctPasswordAlways(candidatePassword, userPassword) == TRUE

correctPassword(candidatePassword, userPassword) ==
    userPassword = bcryptHash(candidatePassword)

changedPasswordAfter(user, JWTTimestamp) ==
    IF user.passwordChangedAt # Undefined
    THEN JWTTimestamp * 1000 < user.passwordChangedAt[1]
    ELSE FALSE

\* the schema validators that run on save() of a changed password
passwordValid(password, passwordConfirm) ==
    /\ password # ""
    /\ Len(password) >= MinPasswordLength
    /\ passwordConfirm = password

\* the two pre('save') hooks, for a document that is not new
savePassword(user, password) ==
    [user EXCEPT !.password = bcryptHash(password),
                 !.passwordChangedAt = Some(now - PasswordChangedSkew)]

\* the unique index on email covers every stored document, active or not
emailTaken(email, except) ==
    \E i \in DOMAIN users \ except : users[i].email = email

(***************************************************************************)
(* Requests and responses.  resp describes the last request handled:       *)
(* op is the route, ran tells whether the route's handler ran, res is the  *)
(* response, uid is req.user (0 when not set), token is the JWT sent, and  *)
(* read is the set of user documents the handler read.                     *)
(***************************************************************************)
Success(code) == Response(code, "json", "success", "", FALSE)

\* next(err): the global error handler answers
ErrorResponse(e) == globalErrorHandler(e, ApiUrl, nodeEnv)

Resp(op, ran, res, uid, token) ==
    [op |-> op, ran |-> ran, res |-> res, uid |-> uid, token |-> token,
     read |-> {}]

otherVars == <<nodeEnv, now, reviewVars, err>>

\* a token the server sends reaches a client, which may drop it, keep it
\* with the ones it holds, or keep it in place of one it holds; at is the
\* instant the token was signed
keepChoices(token) ==
    LET held == [jwt |-> token, at |-> now] IN
    {tokens}
    \cup (IF Cardinality(tokens) < MaxTokens THEN {tokens \cup {held}} ELSE {})
    \cup {(tokens \ {old}) \cup {held} : old \in tokens}

LoggedOut == [id |-> 0, iat |-> 0, exp |-> 0, sig |-> "malformed"]

\* what a client can present: a token it holds, a copy of one with a
\* signature made without the secret, or the 'loggedout' cookie value
Presentable ==
    {t.jwt : t \in tokens}
    \cup {[t.jwt EXCEPT !.sig = "bad"] : t \in tokens}
    \cup {LoggedOut}

Headers == {Undefined, <<"Bearer">>} \cup {<<"Bearer", t>> : t \in Presentable}
Cookies == {Undefined} \cup {Some(t) : t \in Presentable}
Credentials == [authorization : Headers, jwt : Cookies]
BearerCredentials ==
    [authorization : {Undefined} \cup {<<"Bearer", t.jwt>> : t \in tokens},
     jwt : {Undefined}]

MsgNotLoggedIn == "You are not logged in. Please log in to get access."
MsgNoLongerExists == "The user no longer exists."
MsgRecentlyChanged == "User recently changed password. Please log in again."
MsgNoPermission == "You do not have permission to perform this action"

\* req.headers.authorization.split(' ')[1], or req.cookies.jwt
extractToken(creds) ==
    IF creds.authorization # Undefined /\ creds.authorization[1] = "Bearer"
    THEN IF Len(creds.authorization) >= 2 THEN Some(creds.authorization[2])
         ELSE Undefined
    ELSE IF creds.jwt # Undefined THEN creds.jwt
    ELSE Undefined

\* protect: either the current user (ok) or the error passed to next
protect(creds) ==
    LET token == extractToken(creds) IN
    IF token = Undefined
    THEN [ok |-> FALSE, error |-> AppError(MsgNotLoggedIn, 401)]
    ELSE LET v == jwtVerify(token[1]) IN
         IF ~v.ok THEN [ok |-> FALSE, error |-> v.error]
         ELSE LET currentUser == findById(v.decoded.id) IN
              IF currentUser = Undefined
              THEN [ok |-> FALSE, error |-> AppError(MsgNoLongerExists, 401)]
              ELSE IF changedPasswordAfter(users[currentUser[1]], v.decoded.iat)
              THEN [ok |-> FALSE, error |-> AppError(MsgRecentlyChanged, 401)]
              ELSE [ok |-> TRUE, user |-> currentUser[1]]

restrictToAnyRole(roles, user) == [ok |-> TRUE]

restrictTo(roles, user) ==
    IF users[user].role \notin roles
    THEN [ok |-> FALSE, error |-> AppError(MsgNoPermission, 403)]
    ELSE [ok |-> TRUE]

\* a request that a middleware ends with next(err): no handler runs and
\* nothing is stored
Rejected(op, e, uid) ==
    /\ resp' = Resp(op, FALSE, ErrorResponse(e), uid, Undefined)
    /\ UNCHANGED userVars

\* a handler that ends with next(err) or a rejected promise
Failed(op, e, uid) ==
    /\ resp' = Resp(op, TRUE, ErrorResponse(e), uid, Undefined)
    /\ UNCHANGED userVars

\* a Mongoose validation error: where its name lives depends on the version
FailedValidation(op, uid) ==
    \E own \in BOOLEAN : Failed(op, ValidationError(own), uid)

Passwords == {"password1", "password2"}
NewPasswords == {<<"password1", "password1">>, <<"short", "short">>,
                 <<"password1", "password2">>}

MsgProvideBoth == "Please provide email and password"
MsgIncorrectLogin == "Incorrect email or password"
MsgCurrentIncorrect == "Your current password is incorrect."
MsgNoUserId == "No user found with that ID"
MsgNotForPasswords ==
    "This route is not for password updates. Please use /updatemypassword route."
MsgNotDefined == "This route is not defined. Please use /signup route."
MsgNoUserEmail == "There is no user with this email address"
MsgEmailFailed == "There was an error sending email. Try again later."
MsgTokenInvalid == "Token is invalid or has expired"

\* res.cookie('jwt', token); res.status(statusCode).json({ token, ... })
createSendToken(op, user, statusCode) ==
    /\ tokens' \in keepChoices(signToken(user))
    /\ resp' = Resp(op, TRUE, Success(statusCode), user, Some(signToken(user)))

(***************************************************************************)
(* Routes before router.use(protect).                                      *)
(***************************************************************************)
LoginReq(email, password) ==
    LET user == findOneByEmail(email)
    IN /\ IF email = "" \/ password = ""
          THEN Failed("login", AppError(MsgProvideBoth, 400), 0)
          ELSE IF \/ user = Undefined
                  \/ ~correctPassword(password, users[user[1]].password)
          THEN Failed("login", AppError(MsgIncorrectLogin, 401), 0)
          ELSE /\ createSendToken("login", user[1], 200)
               /\ UNCHANGED users
       /\ UNCHANGED otherVars

Login(emails) ==
    \E email \in emails \cup {""}, password \in Passwords \cup {""} :
        LoginReq(email, password)

(***************************************************************************)
(* Routes after router.use(protect).                                       *)
(***************************************************************************)
UpdatePasswordReq(creds, current, pw) ==
    LET p == protect(creds)
    IN /\ IF ~p.ok THEN Rejected("updatePassword", p.error, 0)
          ELSE IF ~correctPassword(current, users[p.user].password)
          THEN Failed("updatePassword", AppError(MsgCurrentIncorrect, 401), p.user)
          ELSE IF ~passwordValid(pw[1], pw[2])
          THEN FailedValidation("updatePassword", p.user)
          ELSE /\ users' = [users EXCEPT ![p.user] = savePassword(@, pw[1])]
               /\ createSendToken("updatePassword", p.user, 200)
       /\ UNCHANGED otherVars

UpdatePassword ==
    \E creds \in BearerCredentials, current \in Passwords, pw \in NewPasswords :
        UpdatePasswordReq(creds, current, pw)

\* getMe, getUser
GetMeReq(creds) ==
    LET p == protect(creds)
    IN /\ IF ~p.ok THEN Rejected("getMe", p.error, 0)
          ELSE /\ resp' = [Resp("getMe", TRUE, Success(200), p.user, Undefined)
                               EXCEPT !.read = {p.user}]
               /\ UNCHANGED userVars
       /\ UNCHANGED otherVars

GetMe == \E creds \in Credentials : GetMeReq(creds)

DeleteMeReq(creds) ==
    LET p == protect(creds)
    IN /\ IF ~p.ok THEN Rejected("deleteMe", p.error, 0)
          ELSE /\ users' = [users EXCEPT ![p.user].active = FALSE]
               /\ resp' = Resp("deleteMe", TRUE, Success(204), p.user, Undefined)
               /\ UNCHANGED tokens
       /\ UNCHANGED otherVars

DeleteMe == \E creds \in BearerCredentials : DeleteMeReq(creds)

filterObjKeepAll(obj, allowedFields) == obj

filterObj(obj, allowedFields) ==
    [el \in DOMAIN obj \cap allowedFields |-> obj[el]]

\* Model.findByIdAndUpdate(id, update): sets the schema paths the update names
applyUpdate(doc, update) ==
    [k \in DOMAIN doc |-> IF k \in DOMAIN update THEN update[k] ELSE doc[k]]

ValidEmails == Emails \cup {"dan@x.io"}

\* runValidators: true, for the paths the update sets
updateValid(update) ==
    /\ "email" \in DOMAIN update => update["email"] \in ValidEmails
    /\ "name" \in DOMAIN update => update["name"] # ""
    /\ "role" \in DOMAIN update =>
          update["role"] \in {"user", "guide", "lead-guide", "admin"}

\* req.body[key] is set and is not the empty string
truthy(obj, key) == key \in DOMAIN obj /\ obj[key] # ""

NoBody == [k \in {} |-> ""]
opt(key, values) == {NoBody} \cup {(key :> v) : v \in values}

ExtraKeys ==
    ("role" :> "admin") @@ ("active" :> FALSE) @@ ("photo" :> <<"evil.jpg">>)
    @@ ("passwordChangedAt" :> Some(1)) @@ ("passwordResetToken" :> Some(<<"r1">>))
    @@ ("passwordResetExpires" :> Some(StartNow))

ProfileBodies ==
    {b @@ pw :
        b \in {NoBody,
                ("name" :> "zed") @@ ("email" :> "dan@x.io") @@ ExtraKeys,
                ("email" :> "notanemail"),
                ("email" :> "ann@x.io")},
        pw \in opt("password", {"", "password9"})
               \cup {("passwordConfirm" :> "password9")}}

Files == {Undefined, Some("image/png"), Some("text/plain")}

MsgNotImage == "Not an image. Please upload only images"

\* uploadUserPhoto, resizeUserPhoto, updateMe
UpdateMeReq(creds, body, file) ==
    LET p == protect(creds)
        filteredBody == filterObj(body, {"name", "email"})
        update == IF file # Undefined
                  THEN ("photo" :> <<"user", p.user, now>>) @@ filteredBody
                  ELSE filteredBody
    IN /\ IF ~p.ok THEN Rejected("updateMe", p.error, 0)
          ELSE IF file # Undefined /\ ~startsWith(file[1], "image")
          THEN Rejected("updateMe", AppError(MsgNotImage, 400), p.user)
          ELSE IF truthy(body, "password") \/ truthy(body, "passwordConfirm")
          THEN Failed("updateMe", AppError(MsgNotForPasswords, 400), p.user)
          ELSE IF ~updateValid(update)
          THEN FailedValidation("updateMe", p.user)
          ELSE IF "email" \in DOMAIN update /\ emailTaken(update["email"], {p.user})
          THEN Failed("updateMe", DuplicateKeyError, p.user)
          ELSE /\ users' = [users EXCEPT ![p.user] = applyUpdate(@, update)]
               /\ resp' = Resp("updateMe", TRUE, Success(200), p.user, Undefined)
               /\ UNCHANGED tokens
       /\ UNCHANGED otherVars

UpdateMe ==
    \E creds \in BearerCredentials, body \in ProfileBodies, file \in Files :
        UpdateMeReq(creds, body, file)

(***************************************************************************)
(* Routes after router.use(restrictTo('admin')).                           *)
(***************************************************************************)
\* protect, then restrictTo('admin'): the admin's id, or the error
adminOnly(creds) ==
    LET p == protect(creds) IN
    IF ~p.ok THEN [ok |-> FALSE, error |-> p.error, user |-> 0]
    ELSE LET r == restrictTo({"admin"}, p.user) IN
         IF ~r.ok THEN [ok |-> FALSE, error |-> r.error, user |-> p.user]
         ELSE p

GetAllUsersReq(creds) ==
    LET a == adminOnly(creds)
    IN /\ IF ~a.ok THEN Rejected("getAllUsers", a.error, a.user)
          ELSE /\ resp' = [Resp("getAllUsers", TRUE, Success(200), a.user, Undefined)
                               EXCEPT !.read = activeUsers]
               /\ UNCHANGED userVars
       /\ UNCHANGED otherVars

GetAllUsers == \E creds \in BearerCredentials : GetAllUsersReq(creds)

CreateUserReq(creds) ==
    LET a == adminOnly(creds)
    IN /\ IF ~a.ok THEN Rejected("createUser", a.error, a.user)
          ELSE /\ resp' = Resp("createUser", TRUE,
                               Response(500, "json", "error", MsgNotDefined, FALSE),
                               a.user, Undefined)
               /\ UNCHANGED userVars
       /\ UNCHANGED otherVars

CreateUser == \E creds \in BearerCredentials : CreateUserReq(creds)

GetUserReq(creds, id) ==
    LET a == adminOnly(creds)
        user == findById(id)
    IN /\ IF ~a.ok THEN Rejected("getUser", a.error, a.user)
          ELSE IF user = Undefined
          THEN Failed("getUser", AppError(MsgNoUserId, 404), a.user)
          ELSE /\ resp' = [Resp("getUser", TRUE, Success(200), a.user, Undefined)
                               EXCEPT !.read = {id}]
               /\ UNCHANGED userVars
       /\ UNCHANGED otherVars

GetUser == \E creds \in BearerCredentials, id \in UserIds : GetUserReq(creds, id)

AdminBodies == opt("role", {"user", "admin", "root"})

UpdateUserReq(creds, id, body) ==
    LET a == adminOnly(creds)
        user == findById(id)
    IN /\ IF ~a.ok THEN Rejected("updateUser", a.error, a.user)
          ELSE IF ~updateValid(body)
          THEN FailedValidation("updateUser", a.user)
          ELSE IF user = Undefined
          THEN Failed("updateUser", AppError(MsgNoUserId, 404), a.user)
          ELSE /\ users' = [users EXCEPT ![id] = applyUpdate(@, body)]
               /\ resp' = [Resp("updateUser", TRUE, Success(200), a.user, Undefined)
                               EXCEPT !.read = {id}]
               /\ UNCHANGED tokens
       /\ UNCHANGED otherVars

UpdateUser ==
    \E creds \in BearerCredentials, id \in UserIds, body \in AdminBodies :
        UpdateUserReq(creds, id, body)

DeleteUserReq(creds, id) ==
    LET a == adminOnly(creds)
        user == findById(id)
    IN /\ IF ~a.ok THEN Rejected("deleteUser", a.error, a.user)
          ELSE IF user = Undefined
          THEN Failed("deleteUser", AppError(MsgNoUserId, 404), a.user)
          ELSE /\ users' = [i \in DOMAIN users \ {id} |-> users[i]]
               /\ resp' = [Resp("deleteUser", TRUE, Success(204), a.user, Undefined)
                               EXCEPT !.read = {id}]
               /\ UNCHANGED tokens
       /\ UNCHANGED otherVars

DeleteUser == \E creds \in BearerCredentials, id \in UserIds : DeleteUserReq(creds, id)

(***************************************************************************)
(* The password reset token.                                               *)
(***************************************************************************)
\* crypto.randomBytes(32).toString('hex')
RawTokens == {<<"r1">>, <<"r2">>}

\* what a client can put in /resetpassword/:token
ResetParams == RawTokens \cup {sha256(r) : r \in RawTokens}

createPasswordResetToken(user, resetToken) ==
    [user EXCEPT !.passwordResetToken = Some(sha256(resetToken)),
                 !.passwordResetExpires = Some(now + ResetTokenLifetime)]

\* sendOk: whether sending the email succeeds
ForgotPasswordReq(email, resetToken, sendOk) ==
    LET user == findOneByEmail(email)
    IN /\ IF user = Undefined
          THEN Failed("forgotPassword", AppError(MsgNoUserEmail, 404), 0)
          ELSE IF sendOk
          THEN /\ users' = [users EXCEPT ![user[1]] =
                                createPasswordResetToken(@, resetToken)]
               /\ resp' = Resp("forgotPassword", TRUE, Success(200), user[1], Undefined)
               /\ UNCHANGED tokens
          ELSE /\ users' = [users EXCEPT ![user[1]].passwordResetToken = Undefined,
                                         ![user[1]].passwordResetExpires = Undefined]
               /\ resp' = Resp("forgotPassword", TRUE,
                               ErrorResponse(AppError(MsgEmailFailed, 500)),
                               user[1], Undefined)
               /\ UNCHANGED tokens
       /\ UNCHANGED otherVars

ForgotPassword(emails) ==
    \E email \in emails, resetToken \in RawTokens, sendOk \in BOOLEAN :
        ForgotPasswordReq(email, resetToken, sendOk)

resetMatchIgnoringExpiry(u, hashedToken) ==
    u.passwordResetToken = Some(hashedToken)

\* { passwordResetToken: hashedToken, passwordResetExpires: { $gt: Date.now() } }
resetMatch(u, hashedToken) ==
    /\ u.passwordResetToken = Some(hashedToken)
    /\ u.passwordResetExpires # Undefined
    /\ u.passwordResetExpires[1] > now

ResetPasswordReq(token, pw) ==
    LET hashedToken == sha256(token)
        user == firstOf({i \in activeUsers : resetMatch(users[i], hashedToken)})
    IN /\ IF user = Undefined
          THEN Failed("resetPassword", AppError(MsgTokenInvalid, 400), 0)
          ELSE IF ~passwordValid(pw[1], pw[2])
          THEN FailedValidation("resetPassword", user[1])
          ELSE /\ users' = [users EXCEPT ![user[1]] =
                                [savePassword(@, pw[1]) EXCEPT
                                    !.passwordResetToken = Undefined,
                                    !.passwordResetExpires = Undefined]]
               /\ createSendToken("resetPassword", user[1], 200)
       /\ UNCHANGED otherVars

ResetPassword ==
    \E token \in ResetParams, pw \in NewPasswords : ResetPasswordReq(token, pw)

\* time passes between requests
Tick ==
    /\ \E t \in Instants : t > now /\ now' = t
    /\ resp' = NoResp
    /\ UNCHANGED <<nodeEnv, userVars, reviewVars, err>>

(***************************************************************************)
(* The Review model and the review routes.  A request that awaits is a     *)
(* job: it sits in a slot of jobs between two awaits, and other jobs can   *)
(* run in between.  ratingsAverage is kept in tenths (45 is 4.5).          *)
(***************************************************************************)
MaxReviews == 2          \* review _ids that can ever exist

TourIds == {"t1", "t2"}
Reviewers == {"ann", "bob"}
Ratings == {1, 5}
ReviewIds == 1..MaxReviews
Slots == {1, 2}          \* requests and recalculations in progress at once

Idle == [kind |-> "idle"]
busy == {s \in Slots : jobs[s] # Idle}
\* a request that arrives takes the first free slot
freeSlot(slot) == jobs[slot] = Idle /\ \A s \in Slots : s < slot => jobs[s] # Idle

MsgNoReview == "No review found with that ID"
MsgNullConstructor == "Cannot read property 'constructor' of null"

DefaultRatings == [ratingsQuantity |-> 0, ratingsAverage |-> 45]

\* the ratingsAverage setter, Math.round(val * 10) / 10, for val = sum / n
roundTenths(sum, n) == (20 * sum + n) \div (2 * n)

\* rating: { min: 1, max: 5 }
ratingValid(rating) == rating >= 1 /\ rating <= 5

uniqueIndexOff(docs, id, doc) == FALSE

\* reviewSchema.index({ tour: 1, user: 1 }, { unique: true }): whether
\* storing doc under id collides with another stored document
uniqueIndexViolated(docs, id, doc) ==
    \E i \in DOMAIN docs \ {id} :
        docs[i].tour = doc.tour /\ docs[i].user = doc.user

RECURSIVE sumRatings(_)
sumRatings(ids) ==
    IF ids = {} THEN 0
    ELSE LET i == CHOOSE x \in ids : TRUE
         IN reviews[i].rating + sumRatings(ids \ {i})

\* the aggregation pipeline: $match { tour }, $group { nRating, avgRating }
aggregateStats(tourId) ==
    LET matched == {i \in DOMAIN reviews : reviews[i].tour = tourId}
    IN IF matched = {} THEN Undefined
       ELSE Some([nRating |-> Cardinality(matched), sum |-> sumRatings(matched)])

\* Tour.findByIdAndUpdate(tourId, { ratingsQuantity, ratingsAverage })
writeRatings(tourId, stats) ==
    IF stats # Undefined
    THEN [tours EXCEPT ![tourId] =
            [ratingsQuantity |-> stats[1].nRating,
             ratingsAverage |-> roundTenths(stats[1].sum, stats[1].nRating)]]
    ELSE [tours EXCEPT ![tourId] = DefaultRatings]

ReviewResp(op, res, rev) ==
    [op |-> op, res |-> res, rev |-> rev]

\* createReview: Review.create(req.body); post('save') starts the
\* recalculation and does not wait for it
CreateReviewReq(slot, tour, user, rating, limit) ==
    LET id == reviewCount + 1
        doc == [tour |-> tour, user |-> user, rating |-> rating]
    IN /\ freeSlot(slot)
       /\ Cardinality(busy) < limit
       /\ reviewCount < MaxReviews
       /\ IF ~ratingValid(rating)
          THEN /\ \E own \in BOOLEAN :
                    resp' = ReviewResp("createReview",
                                       ErrorResponse(ValidationError(own)), Undefined)
               /\ UNCHANGED reviewVars
          ELSE IF uniqueIndexViolated(reviews, id, doc)
          THEN /\ resp' = ReviewResp("createReview",
                                     ErrorResponse(DuplicateKeyError), Undefined)
               /\ UNCHANGED reviewVars
          ELSE /\ reviews' = reviews @@ (id :> doc)
               /\ reviewCount' = id
               /\ jobs' = [jobs EXCEPT ![slot] =
                             [kind |-> "calc", pc |-> "aggregate", tour |-> tour]]
               /\ resp' = ReviewResp("createReview", Success(201), Undefined)
               /\ UNCHANGED tours
       /\ UNCHANGED <<nodeEnv, now, userVars, err>>

CreateReview(limit, authors, ratings) ==
    \E slot \in Slots, tour \in TourIds, user \in authors, rating \in ratings :
        CreateReviewReq(slot, tour, user, rating, limit)

\* calcAverageRatings, up to its first await: the aggregate
CalcAggregate ==
    \E slot \in Slots :
       /\ jobs[slot] # Idle
       /\ jobs[slot].kind = "calc" /\ jobs[slot].pc = "aggregate"
       /\ jobs' = [jobs EXCEPT ![slot] =
                     [kind |-> "calc", pc |-> "write", tour |-> jobs[slot].tour,
                      stats |-> aggregateStats(jobs[slot].tour)]]
       /\ resp' = NoResp
       /\ UNCHANGED <<reviews, reviewCount, tours>>
       /\ UNCHANGED <<nodeEnv, now, userVars, err>>

\* calcAverageRatings, after the aggregate: the write to the tour
CalcWrite ==
    \E slot \in Slots :
       /\ jobs[slot] # Idle
       /\ jobs[slot].kind = "calc" /\ jobs[slot].pc = "write"
       /\ tours' = writeRatings(jobs[slot].tour, jobs[slot].stats)
       /\ jobs' = [jobs EXCEPT ![slot] = Idle]
       /\ resp' = NoResp
       /\ UNCHANGED <<reviews, reviewCount>>
       /\ UNCHANGED <<nodeEnv, now, userVars, err>>

ReviewBodies == opt("rating", Ratings \cup {6}) \cup opt("tour", TourIds)

\* deleteReview and updateReview arrive: findByIdAndDelete(id) and
\* findByIdAndUpdate(id, body) start with the pre(/^findOneAnd/) hook
StartFindOneAnd(limit, bodies) ==
    \E slot \in Slots, id \in ReviewIds, body \in bodies,
       op \in {"deleteReview", "updateReview"} :
       /\ freeSlot(slot)
       /\ Cardinality(busy) < limit
       /\ op = "deleteReview" => body = NoBody
       /\ jobs' = [jobs EXCEPT ![slot] =
                     [kind |-> op, pc |-> "pre", id |-> id, body |-> body]]
       /\ resp' = NoResp
       /\ UNCHANGED <<reviews, reviewCount, tours>>
       /\ UNCHANGED <<nodeEnv, now, userVars, err>>

\* pre(/^findOneAnd/): this.rev = await this.findOne()
PreFindOneAnd ==
    \E slot \in Slots :
       /\ jobs[slot] # Idle
       /\ jobs[slot].kind \in {"deleteReview", "updateReview"}
       /\ jobs[slot].pc = "pre"
       /\ jobs' = [jobs EXCEPT ![slot] =
                     [kind |-> jobs[slot].kind, pc |-> "exec", id |-> jobs[slot].id,
                      body |-> jobs[slot].body,
                      rev |-> IF jobs[slot].id \in DOMAIN reviews
                              THEN Some([tour |-> reviews[jobs[slot].id].tour])
                              ELSE Undefined]]
       /\ resp' = NoResp
       /\ UNCHANGED <<reviews, reviewCount, tours>>
       /\ UNCHANGED <<nodeEnv, now, userVars, err>>

\* the query itself: one atomic findOneAndDelete or findOneAndUpdate
ExecFindOneAnd ==
    \E slot \in Slots :
      LET j == jobs[slot]
          found == j.id \in DOMAIN reviews
          next == [kind |-> j.kind, pc |-> "post", rev |-> j.rev, found |-> found]
      IN /\ j # Idle
         /\ j.kind \in {"deleteReview", "updateReview"}
         /\ j.pc = "exec"
         /\ IF j.kind = "deleteReview"
            THEN /\ reviews' = [i \in DOMAIN reviews \ {j.id} |-> reviews[i]]
                 /\ jobs' = [jobs EXCEPT ![slot] = next]
                 /\ resp' = NoResp
            ELSE IF "rating" \in DOMAIN j.body /\ ~ratingValid(j.body["rating"])
            THEN /\ \E own \in BOOLEAN :
                      resp' = ReviewResp(j.kind, ErrorResponse(ValidationError(own)),
                                         j.rev)
                 /\ jobs' = [jobs EXCEPT ![slot] = Idle]
                 /\ UNCHANGED reviews
            ELSE IF found /\ uniqueIndexViolated(reviews, j.id,
                                                 applyUpdate(reviews[j.id], j.body))
            THEN /\ resp' = ReviewResp(j.kind, ErrorResponse(DuplicateKeyError), j.rev)
                 /\ jobs' = [jobs EXCEPT ![slot] = Idle]
                 /\ UNCHANGED reviews
            ELSE /\ reviews' = IF found
                               THEN [reviews EXCEPT ![j.id] = applyUpdate(@, j.body)]
                               ELSE reviews
                 /\ jobs' = [jobs EXCEPT ![slot] = next]
                 /\ resp' = NoResp
         /\ UNCHANGED <<reviewCount, tours>>
         /\ UNCHANGED <<nodeEnv, now, userVars, err>>

\* post(/^findOneAnd/): await this.rev.constructor.calcAverageRatings(
\* this.rev.tour), up to the aggregate
PostFindOneAnd ==
    \E slot \in Slots :
      LET j == jobs[slot]
      IN /\ j # Idle
         /\ j.kind \in {"deleteReview", "updateReview"}
         /\ j.pc = "post"
         /\ IF j.rev = Undefined
            THEN /\ resp' = ReviewResp(j.kind,
                                       ErrorResponse(TypeError(MsgNullConstructor)),
                                       j.rev)
                 /\ jobs' = [jobs EXCEPT ![slot] = Idle]
            ELSE /\ jobs' = [jobs EXCEPT ![slot] =
                               [kind |-> j.kind, pc |-> "write", rev |-> j.rev,
                                found |-> j.found,
                                stats |-> aggregateStats(j.rev[1].tour)]]
                 /\ resp' = NoResp
         /\ UNCHANGED <<reviews, reviewCount, tours>>
         /\ UNCHANGED <<nodeEnv, now, userVars, err>>

\* the write of calcAverageRatings, then the handler answers
FinishFindOneAnd ==
    \E slot \in Slots :
      LET j == jobs[slot]
      IN /\ j # Idle
         /\ j.kind \in {"deleteReview", "updateReview"}
         /\ j.pc = "write"
         /\ tours' = writeRatings(j.rev[1].tour, j.stats)
         /\ jobs' = [jobs EXCEPT ![slot] = Idle]
         /\ resp' = ReviewResp(j.kind,
                       IF ~j.found THEN ErrorResponse(AppError(MsgNoReview, 404))
                       ELSE IF j.kind = "deleteReview" THEN Success(204)
                       ELSE Success(200),
                       j.rev)
         /\ UNCHANGED <<reviews, reviewCount>>
         /\ UNCHANGED <<nodeEnv, now, userVars, err>>

(***************************************************************************)
(* The application: the global middlewares a request passes before the     *)
(* routers, the three mounted routers, and the catch-all route.            *)
(***************************************************************************)
Methods == {"GET", "HEAD", "POST", "PATCH", "DELETE", "OPTIONS"}

UsersMount == "/api/v1/users"
ToursMount == "/api/v1/tours"
ReviewsMount == "/api/v1/reviews"
UploadsMount == "/uploads"

Urls == {"/", PageUrl, ApiUrl, "/api/v1/toursx", "/uploads/users/a.jpg",
         "/api/v1/tours", "/api/v1/reviews/1", "/api/v1/users",
         "/api/v1/users/login", "/api/v1/users/me", "/api/v1/users/2",
         "/api/v1/users/no/route"}

mountMatchesPrefix(url, path) == startsWith(url, path)

\* app.use(path, ...): the path itself, or the path followed by a segment
mountMatches(url, path) == url = path \/ startsWith(url, path \o "/")

\* req.url inside a router: what follows the mount path
routerUrl(url, path) ==
    IF url = path THEN "/" ELSE SubSeq(url, Len(path) + 1, Len(url))

\* '/:id': one segment that is not empty
oneSegment(u) ==
    /\ Len(u) > 1
    /\ \A i \in 2..Len(u) : SubSeq(u, i, i) # "/"

\* router.get also answers HEAD
methodMatches(routeMethod, method) ==
    method = routeMethod \/ (routeMethod = "GET" /\ method = "HEAD")

MsgCantFind(url) == "Can't find " \o url \o " on this server"
MsgTooMany == "Too many requests from this IP, please try again in an hour."

\* express.json() on a body that does not parse: a SyntaxError with status 400
BodyParseError ==
    [name |-> "SyntaxError", nameOwn |-> FALSE, code |-> 0, statusCode |-> 400,
     status |-> "400", isOperational |-> FALSE, message |-> "Unexpected token"]

\* the routes of userRouter, in order, up to router.use(protect)
openRoute(method, u) ==
    IF methodMatches("POST", method) /\ u = "/signup" THEN "signup"
    ELSE IF methodMatches("POST", method) /\ u = "/login" THEN "login"
    ELSE IF methodMatches("GET", method) /\ u = "/logout" THEN "logout"
    ELSE IF methodMatches("GET", method) /\ u = "/isloggedin" THEN "isLoggedIn"
    ELSE IF methodMatches("POST", method) /\ u = "/forgotpassword"
    THEN "forgotPassword"
    ELSE IF /\ methodMatches("PATCH", method)
            /\ startsWith(u, "/resetpassword/")
            /\ oneSegment(SubSeq(u, Len("/resetpassword") + 1, Len(u)))
    THEN "resetPassword"
    ELSE ""

\* the routes between router.use(protect) and router.use(restrictTo('admin'))
protectedRoute(method, u) ==
    IF methodMatches("PATCH", method) /\ u = "/updatemypassword"
    THEN "updatePassword"
    ELSE IF methodMatches("GET", method) /\ u = "/me" THEN "getMe"
    ELSE IF methodMatches("PATCH", method) /\ u = "/updateme" THEN "updateMe"
    ELSE IF methodMatches("DELETE", method) /\ u = "/deleteme" THEN "deleteMe"
    ELSE ""

\* the routes after router.use(restrictTo('admin'))
adminRoute(method, u) ==
    IF u = "/" /\ methodMatches("GET", method) THEN "getAllUsers"
    ELSE IF u = "/" /\ methodMatches("POST", method) THEN "createUser"
    ELSE IF oneSegment(u) /\ methodMatches("GET", method) THEN "getUser"
    ELSE IF oneSegment(u) /\ methodMatches("PATCH", method) THEN "updateUser"
    ELSE IF oneSegment(u) /\ methodMatches("DELETE", method) THEN "deleteUser"
    ELSE ""

\* the answer of the application to a request: by is the middleware or
\* router that ended it, handler the route handler it was given to ("" when
\* none), passed the error given to next (and so to the global error
\* handler), res the response when the application itself answers
Routed(req, by, handler, passed, res) ==
    [op |-> "request", req |-> req, by |-> by, handler |-> handler,
     passed |-> passed, res |-> res]

ToErrorHandler(req, by, e) ==
    Routed(req, by, "", Some(e), Some(globalErrorHandler(e, req.url, nodeEnv)))

ToHandler(req, by, handler) == Routed(req, by, handler, Undefined, Undefined)

\* app.all('*', ...)
catchAll(req) == ToErrorHandler(req, "all", AppError(MsgCantFind(req.url), 404))

\* userRouter, for a request under its mount path
userRouter(req, creds) ==
    LET u == routerUrl(req.url, UsersMount)
        p == protect(creds)
    IN IF openRoute(req.method, u) # ""
       THEN ToHandler(req, "userRouter", openRoute(req.method, u))
       ELSE IF ~p.ok THEN ToErrorHandler(req, "userRouter", p.error)
       ELSE IF protectedRoute(req.method, u) # ""
       THEN ToHandler(req, "userRouter", protectedRoute(req.method, u))
       ELSE IF ~restrictTo({"admin"}, p.user).ok
       THEN ToErrorHandler(req, "userRouter", restrictTo({"admin"}, p.user).error)
       ELSE IF adminRoute(req.method, u) # ""
       THEN ToHandler(req, "userRouter", adminRoute(req.method, u))
       ELSE catchAll(req)

\* tourRouter and reviewRouter: whether one of their routes takes the request
otherRouter(req, by, taken) ==
    IF taken THEN ToHandler(req, by, by) ELSE catchAll(req)

\* the middlewares and routes of app, in the order they are registered
appAnswer(req, creds, taken) ==
    IF req.method = "OPTIONS"
    THEN Routed(req, "cors", "", Undefined, Some(Response(204, "empty", "", "", FALSE)))
    ELSE IF /\ mountMatches(req.url, UploadsMount)
            /\ req.method \in {"GET", "HEAD"}
            /\ req.fileExists
    THEN Routed(req, "static", "", Undefined, Some(Response(200, "file", "", "", FALSE)))
    ELSE IF startsWith(req.url, ApiPrefix) /\ req.overLimit
    THEN Routed(req, "limiter", "", Undefined,
                Some(Response(429, "text", "", MsgTooMany, FALSE)))
    ELSE IF ~req.bodyOk THEN ToErrorHandler(req, "bodyParser", BodyParseError)
    ELSE IF mountMatches(req.url, ToursMount) THEN otherRouter(req, "tourRouter", taken)
    ELSE IF mountMatches(req.url, UsersMount) THEN userRouter(req, creds)
    ELSE IF mountMatches(req.url, ReviewsMount)
    THEN otherRouter(req, "reviewRouter", taken)
    ELSE catchAll(req)

Requests ==
    [method : Methods, url : Urls, fileExists : BOOLEAN, overLimit : BOOLEAN,
     bodyOk : BOOLEAN]

NoCredentials == [authorization |-> Undefined, jwt |-> Undefined]

\* a request arrives and is answered, or handed to a route handler; the
\* credentials matter under /api/v1/users only
Request ==
    /\ \E req \in Requests :
          IF mountMatches(req.url, UsersMount)
          THEN \E creds \in BearerCredentials : resp' = appAnswer(req, creds, FALSE)
          ELSE IF mountMatches(req.url, ToursMount) \/ mountMatches(req.url, ReviewsMount)
          THEN \E taken \in BOOLEAN : resp' = appAnswer(req, NoCredentials, taken)
          ELSE resp' = appAnswer(req, NoCredentials, FALSE)
    /\ UNCHANGED <<nodeEnv, now, userVars, reviewVars, err>>

(***************************************************************************)
(* The global error handler on its own: an error reaches it with a URL.    *)
(***************************************************************************)
ErrorNames == {"Error", "CastError", "ValidationError", "JsonWebTokenError",
               "TokenExpiredError", "MongoError", "TypeError"}

ErrorInputs ==
    [name : ErrorNames, nameOwn : BOOLEAN, code : {0, 11000},
     statusCode : {0, 400, 404}, status : {"", "fail"},
     isOperational : BOOLEAN, message : {"internal detail"}]

RaiseError ==
    /\ \E e \in ErrorInputs, url \in {ApiUrl, PageUrl} :
          err' = [e |-> e, url |-> url, handled |-> FALSE]
    /\ resp' = NoResp
    /\ UNCHANGED <<nodeEnv, now, userVars, reviewVars>>

HandleError ==
    /\ err.handled = FALSE
    /\ err' = [err EXCEPT !.handled = TRUE]
    /\ resp' = [op |-> "globalErrorHandler",
                res |-> globalErrorHandler(err.e, err.url, nodeEnv)]
    /\ UNCHANGED <<nodeEnv, now, userVars, reviewVars>>

(***************************************************************************)
(* The initial state: the server has started on a database that holds an   *)
(* admin and a user (two earlier signups), two tours without reviews, and  *)
(* no request is being handled.                                            *)
(***************************************************************************)
SeedUsers ==
    (1 :> NewUser("ann", "ann@x.io", "admin", "password1"))
    @@ (2 :> NewUser("bob", "bob@x.io", "user", "password2"))

Init ==
    /\ nodeEnv \in Envs
    /\ now = StartNow
    /\ users = SeedUsers
    /\ tokens = {}
    /\ resp = NoResp
    /\ reviews = << >>
    /\ reviewCount = 0
    /\ tours = [t \in TourIds |-> DefaultRatings]
    /\ jobs = [s \in Slots |-> Idle]
    /\ err = [handled |-> TRUE]

\* the emails one client tries: its own, and one nobody has
ClientEmails == {"bob@x.io", "cat@x.io"}

(***************************************************************************)
(* Spec: one client logs in, changes its password, uses and deletes its    *)
(* account while time passes.                                              *)
(***************************************************************************)
LoginClient == Login(ClientEmails)

Next ==
    \/ Tick
    \/ LoginClient
    \/ UpdatePassword
    \/ GetMe
    \/ DeleteMe

Spec == Init /\ [][Next]_vars

(***************************************************************************)
(* SpecAdmin: the admin and the user log in and call the admin routes.     *)
(***************************************************************************)
LoginAny == Login(Emails)

NextAdmin ==
    \/ LoginAny
    \/ GetAllUsers
    \/ CreateUser
    \/ GetUser
    \/ UpdateUser
    \/ DeleteUser

SpecAdmin == Init /\ [][NextAdmin]_vars

(***************************************************************************)
(* SpecReset: one client asks for reset tokens and uses them.              *)
(***************************************************************************)
ForgotPasswordClient == ForgotPassword(ClientEmails)

NextReset ==
    \/ Tick
    \/ ForgotPasswordClient
    \/ ResetPassword

SpecReset == Init /\ [][NextReset]_vars

(***************************************************************************)
(* SpecProfile: users log in and update their own profile.                 *)
(***************************************************************************)
NextProfile ==
    \/ LoginAny
    \/ UpdateMe

SpecProfile == Init /\ [][NextProfile]_vars

(***************************************************************************)
(* SpecReviewSeq: review requests one at a time, each with the             *)
(* recalculation it triggers finished before the next one arrives.         *)
(***************************************************************************)
CreateReviewAlone == CreateReview(1, Reviewers, Ratings \cup {6})
StartFindOneAndAlone == StartFindOneAnd(1, ReviewBodies)

NextReviewSeq ==
    \/ CreateReviewAlone
    \/ StartFindOneAndAlone
    \/ CalcAggregate
    \/ CalcWrite
    \/ PreFindOneAnd
    \/ ExecFindOneAnd
    \/ PostFindOneAnd
    \/ FinishFindOneAnd

SpecReviewSeq == Init /\ [][NextReviewSeq]_vars

(***************************************************************************)
(* SpecReview: review requests arrive while others are in progress; one    *)
(* user writes, moves and deletes reviews of the two tours.                *)
(***************************************************************************)
CreateReviewAny == CreateReview(Cardinality(Slots), {"ann"}, {5})
StartFindOneAndAny == StartFindOneAnd(Cardinality(Slots), opt("tour", TourIds))

NextReview ==
    \/ CreateReviewAny
    \/ StartFindOneAndAny
    \/ CalcAggregate
    \/ CalcWrite
    \/ PreFindOneAnd
    \/ ExecFindOneAnd
    \/ PostFindOneAnd
    \/ FinishFindOneAnd

SpecReview == Init /\ [][NextReview]_vars

(***************************************************************************)
(* SpecReviewTour: two users write, change and delete reviews while other  *)
(* review requests and recalculations are in progress; no review changes   *)
(* its tour.                                                               *)
(***************************************************************************)
CreateReviewBoth == CreateReview(Cardinality(Slots), Reviewers, {5})
StartFindOneAndSameTour == StartFindOneAnd(Cardinality(Slots), opt("rating", {1}))

NextReviewTour ==
    \/ CreateReviewBoth
    \/ StartFindOneAndSameTour
    \/ CalcAggregate
    \/ CalcWrite
    \/ PreFindOneAnd
    \/ ExecFindOneAnd
    \/ PostFindOneAnd
    \/ FinishFindOneAnd

SpecReviewTour == Init /\ [][NextReviewTour]_vars

(***************************************************************************)
(* SpecApp: requests of every method and URL, from clients that may have   *)
(* logged in.                                                              *)
(***************************************************************************)
NextApp == LoginAny \/ Request

SpecApp == Init /\ [][NextApp]_vars

(***************************************************************************)
(* SpecError: errors of every shape reach the global error handler.        *)
(***************************************************************************)
NextError == RaiseError \/ HandleError

SpecError == Init /\ [][NextError]_vars


(***************************************************************************)
(* Properties of protect and restrictTo.                                   *)
(***************************************************************************)
\* the tokens a request carries, in its Authorization header or its cookie
carried(creds) ==
    (IF creds.authorization # Undefined /\ Len(creds.authorization) >= 2
     THEN {creds.authorization[2]} ELSE {})
    \cup (IF creds.jwt # Undefined THEN {creds.jwt[1]} ELSE {})

\* the instant of the last password change of a user who has changed it:
\* the pre('save') hook stores the instant of the change less one second
changeInstant(u) == users[u].passwordChangedAt[1] + PasswordChangedSkew

\* the token held as h verifies, names a user that is still found, and
\* that user's password was not changed after h was signed
authentic(h) ==
    /\ h.jwt.sig = "ok"
    /\ now \div 1000 < h.jwt.exp
    /\ h.jwt.id \in DOMAIN users
    /\ users[h.jwt.id].active
    /\ \/ users[h.jwt.id].passwordChangedAt = Undefined
       \/ changeInstant(h.jwt.id) <= h.at

\* C1 (its first half): on a route behind protect, here getMe, the handler
\* runs only if the request carries a token that verifies against the
\* secret, whose user is still found, and whose user's password was not
\* changed after the token's issue time.
C1_HandlerRunsOnlyIfAuthentic ==
    [][\A creds \in Credentials :
          (resp'.op = "getMe" /\ GetMeReq(creds) /\ resp'.ran) =>
              \E h \in tokens : h.jwt \in carried(creds) /\ authentic(h)]_vars

\* a request to one of the routes behind restrictTo('admin')
adminRouteReq(creds) ==
    \/ GetAllUsersReq(creds)
    \/ CreateUserReq(creds)
    \/ \E id \in UserIds :
          \/ GetUserReq(creds, id)
          \/ DeleteUserReq(creds, id)
          \/ \E body \in AdminBodies : UpdateUserReq(creds, id, body)

\* C2: on the routes behind restrictTo('admin') the handler runs only for
\* a requester whose role is admin; a requester that is logged in with any
\* other role gets 403, and then no handler runs, no user document is read
\* and none is written.
C2_AdminOnly ==
    [][\A creds \in BearerCredentials :
          (resp'.op # "login" /\ adminRouteReq(creds)) =>
              LET requester == IF creds.authorization = Undefined THEN 0
                               ELSE creds.authorization[2].id
                  loggedIn == requester \in DOMAIN users /\ users[requester].active
              IN /\ resp'.ran => loggedIn /\ users[requester].role = "admin"
                 /\ (loggedIn /\ users[requester].role # "admin") =>
                        /\ resp'.res.code = 403
                        /\ ~resp'.ran
                        /\ resp'.read = {}
                        /\ users' = users]_vars

\* a user that is not an admin was turned away from an admin route
C2_Witness ==
    /\ resp.op \in {"getAllUsers", "createUser", "getUser", "updateUser", "deleteUser"}
    /\ resp.res.code = 403
    /\ resp.uid \in DOMAIN users
    /\ users[resp.uid].role = "user"

\* C3: once a user's password has been changed, protect rejects with 401
\* 'User recently changed password' every token signed for that user
\* before the change, however short the time between the two (the token
\* is otherwise good: not expired, its user still active).
C3_OldTokensRejected ==
    [][\A h \in tokens :
          LET creds == [authorization |-> <<"Bearer", h.jwt>>, jwt |-> Undefined]
              u == h.jwt.id
          IN (/\ resp'.op = "getMe"
              /\ GetMeReq(creds)
              /\ now \div 1000 < h.jwt.exp
              /\ users[u].active
              /\ users[u].passwordChangedAt # Undefined
              /\ \A g \in tokens : g.jwt = h.jwt => g.at < changeInstant(u))
             => /\ ~resp'.ran
                /\ resp'.res.code = 401
                /\ resp'.res.message = MsgRecentlyChanged]_vars

(***************************************************************************)
(* Properties of the password reset and of login.                          *)
(***************************************************************************)
\* C4: resetPassword changes a password only for a user whose stored
\* passwordResetToken is the sha256 hash of the token presented and whose
\* passwordResetExpires is later than the current time; when there is no
\* such user it answers 400 'Token is invalid or has expired' and changes
\* nothing; forgotPassword sets passwordResetExpires to 10 minutes after
\* the call.
C4_ResetOnlyWithLiveToken ==
    [][/\ \A token \in ResetParams, pw \in NewPasswords :
             (resp'.op = "resetPassword" /\ ResetPasswordReq(token, pw)) =>
                 LET live == {i \in DOMAIN users :
                                /\ users[i].passwordResetToken = Some(sha256(token))
                                /\ users[i].passwordResetExpires # Undefined
                                /\ users[i].passwordResetExpires[1] > now}
                 IN /\ \A i \in DOMAIN users : users'[i] # users[i] => i \in live
                    /\ live = {} => /\ resp'.res.code = 400
                                    /\ resp'.res.message = MsgTokenInvalid
                                    /\ resp'.token = Undefined
                                    /\ users' = users
       /\ \A email \in Emails, raw \in RawTokens :
             (/\ resp'.op = "forgotPassword"
              /\ ForgotPasswordReq(email, raw, TRUE)
              /\ resp'.res.code = 200) =>
                 \E i \in DOMAIN users :
                    /\ users[i].email = email
                    /\ users'[i].passwordResetToken = Some(sha256(raw))
                    /\ users'[i].passwordResetExpires = Some(now + 10 * 60 * 1000)]_vars

\* a reset was refused while a user's reset token had expired
C4_Witness ==
    /\ resp.op = "resetPassword"
    /\ resp.res.code = 400
    /\ \E i \in DOMAIN users :
          /\ users[i].passwordResetExpires # Undefined
          /\ users[i].passwordResetExpires[1] <= now

\* C8: login answers 400 when email or password is missing, answers 401
\* 'Incorrect email or password' when no active user has that email or the
\* password does not match the stored hash, and issues a token in no other
\* case; it stores nothing.
C8_Login ==
    [][\A email \in Emails \cup {""}, password \in Passwords \cup {""} :
          (resp'.op = "login" /\ LoginReq(email, password)) =>
              LET matching == {i \in DOMAIN users :
                                 /\ users[i].active
                                 /\ users[i].email = email
                                 /\ users[i].password = bcryptHash(password)}
                  missing == email = "" \/ password = ""
              IN /\ users' = users
                 /\ missing => resp'.res.code = 400 /\ resp'.token = Undefined
                 /\ (~missing /\ matching = {}) =>
                        /\ resp'.res.code = 401
                        /\ resp'.res.message = MsgIncorrectLogin
                        /\ resp'.token = Undefined
                 /\ resp'.token # Undefined =>
                        ~missing /\ resp'.token[1].id \in matching
                 /\ resp'.token = Undefined => tokens' = tokens]_vars

\* a wrong password, or the email of a user that deactivated the account
C8_Witness ==
    /\ resp.op = "login"
    /\ resp.res.code = 401
    /\ \E i \in DOMAIN users : ~users[i].active


C10_ProductionErrors ==
    (nodeEnv = "production" /\ resp.op = "globalErrorHandler") =>
        LET e == err.e
            named(n) == e.nameOwn /\ e.name = n
            operational ==
                IF named("CastError") THEN <<400, MsgCast>>
                ELSE IF e.code = 11000 THEN <<400, MsgDuplicate>>
                ELSE IF named("ValidationError") THEN <<400, MsgValidation>>
                ELSE IF named("JsonWebTokenError") THEN <<401, MsgJWT>>
                ELSE IF named("TokenExpiredError") THEN <<401, MsgJWTExpired>>
                ELSE IF e.isOperational
                THEN <<IF e.statusCode # 0 THEN e.statusCode ELSE 500, e.message>>
                ELSE << >>
        IN /\ (err.url = ApiUrl /\ operational # << >>) =>
                 /\ resp.res.code = operational[1]
                 /\ resp.res.message = operational[2]
           /\ (err.url = ApiUrl /\ operational = << >>) =>
                 /\ resp.res.code = 500
                 /\ resp.res.message = MsgWentWrong
           /\ ~resp.res.stack
           /\ ~e.isOperational => resp.res.message # e.message

\* a TypeError, say, was answered in production on an /api URL
C10_Witness ==
    /\ nodeEnv = "production"
    /\ resp.op = "globalErrorHandler"
    /\ err.url = ApiUrl
    /\ ~err.e.isOperational
    /\ err.e.name = "TypeError"
    /\ resp.res.code = 500
    /\ resp.res.message = MsgWentWrong


(***************************************************************************)
(* Properties of the reviews and of the tours' rating fields.              *)
(***************************************************************************)
\* C5: whatever review requests run, one after the other or at the same
\* time, the stored reviews hold at most one review for each (tour, user)
\* pair; a createReview or an updateReview that would store a second one
\* fails and stores nothing.
C5_OneReviewPerTourAndUser ==
    [][/\ \A i, j \in DOMAIN reviews' :
             (reviews'[i].tour = reviews'[j].tour /\ reviews'[i].user = reviews'[j].user)
                 => i = j
       /\ resp'.op = "createReview" =>
             \A slot \in Slots, tour \in TourIds, user \in Reviewers :
                (/\ CreateReviewReq(slot, tour, user, 5, Cardinality(Slots))
                 /\ \E i \in DOMAIN reviews :
                       reviews[i].tour = tour /\ reviews[i].user = user)
                => reviews' = reviews /\ resp'.res.code >= 400
       /\ \A slot \in Slots :
             (/\ jobs[slot] # Idle
              /\ jobs[slot].kind = "updateReview"
              /\ jobs[slot].pc = "exec"
              /\ jobs'[slot] # jobs[slot]
              /\ jobs[slot].id \in DOMAIN reviews
              /\ "tour" \in DOMAIN jobs[slot].body
              /\ \E i \in DOMAIN reviews \ {jobs[slot].id} :
                    /\ reviews[i].tour = jobs[slot].body["tour"]
                    /\ reviews[i].user = reviews[jobs[slot].id].user)
             => reviews' = reviews /\ resp'.res.code >= 400]_vars

\* an updateReview that would have moved a review onto another review's
\* (tour, user) pair was refused
C5_Witness ==
    /\ resp.op = "updateReview"
    /\ resp.res.message \in {MsgDuplicate, DuplicateKeyError.message}
    /\ Cardinality(DOMAIN reviews) = 2

\* C6: with review requests run one at a time, each with its recalculation
\* finished, every tour's ratingsQuantity is the number of stored reviews
\* of that tour and its ratingsAverage is the mean of their ratings, 4.5
\* (with ratingsQuantity 0) for a tour without reviews; this includes the
\* tour a review is moved to by updateReview.
C6_RatingsMatchReviews ==
    (\A s \in Slots : jobs[s] = Idle) =>
        \A t \in TourIds :
            LET ofTour == {i \in DOMAIN reviews : reviews[i].tour = t}
            IN /\ tours[t].ratingsQuantity = Cardinality(ofTour)
               /\ IF ofTour = {} THEN tours[t].ratingsAverage = 45
                  ELSE tours[t].ratingsAverage * Cardinality(ofTour)
                          = 10 * sumRatings(ofTour)

\* C7: a deleteReview or updateReview whose id matched no stored review
\* when it arrived (its pre hook found none), and whose body passed the
\* validators, answers 404 'No review found with that ID' and leaves the
\* reviews and the tours' rating fields as they were.
C7_UnknownIdIsNotFound ==
    [][\A slot \in Slots :
          (/\ jobs[slot] # Idle
           /\ jobs[slot].kind \in {"deleteReview", "updateReview"}
           /\ jobs[slot].pc = "post"
           /\ jobs[slot].rev = Undefined
           /\ jobs'[slot] # jobs[slot])
          => /\ resp'.res.code = 404
             /\ resp'.res.message = MsgNoReview
             /\ reviews' = reviews
             /\ tours' = tours]_vars


(***************************************************************************)
(* Properties of the application's routing.                                *)
(***************************************************************************)
\* the URL is under none of /api/v1/tours, /api/v1/users, /api/v1/reviews
underNoRouter(url) ==
    \A m \in {"/api/v1/tours", "/api/v1/users", "/api/v1/reviews"} :
        /\ url # m
        /\ ~(Len(url) > Len(m) /\ SubSeq(url, 1, Len(m) + 1) = m \o "/")

\* the request was given to the global error handler as the 404 AppError
\* "Can't find <url> on this server", and to no route handler
notFound(r) ==
    /\ r.handler = ""
    /\ r.passed # Undefined
    /\ r.passed[1].statusCode = 404
    /\ r.passed[1].isOperational
    /\ r.passed[1].message = "Can't find " \o r.req.url \o " on this server"

\* C11, as stated: every request whose URL is under none of the three
\* routers is passed to the global error handler as a 404 AppError "Can't
\* find <url> on this server", whatever its method, and no route handler
\* runs for it.
C11_UnmatchedUrlIsNotFound ==
    (resp.op = "request" /\ underNoRouter(resp.req.url)) => notFound(resp)

\* C11, amended: the same for every request that gets past the global
\* middlewares: it is not an OPTIONS request (cors answers those), not a
\* GET or HEAD of an existing file under /uploads, not over the rate limit
\* on an /api URL, and its body parses.
C11_UnmatchedUrlPastMiddlewaresIsNotFound ==
    (/\ resp.op = "request"
     /\ underNoRouter(resp.req.url)
     /\ resp.req.method # "OPTIONS"
     /\ ~(/\ resp.req.method \in {"GET", "HEAD"}
          /\ resp.req.fileExists
          /\ Len(resp.req.url) > Len("/uploads")
          /\ SubSeq(resp.req.url, 1, Len("/uploads") + 1) = "/uploads/")
     /\ ~(/\ resp.req.overLimit
          /\ Len(resp.req.url) >= Len("/api")
          /\ SubSeq(resp.req.url, 1, Len("/api")) = "/api")
     /\ resp.req.bodyOk)
    => notFound(resp)

\* a DELETE of a URL that only begins like a mounted path fell through to
\* the catch-all route
C11_Witness ==
    /\ resp.op = "request"
    /\ resp.req.method = "DELETE"
    /\ resp.req.url = "/api/v1/toursx"
    /\ resp.by = "all"
    /\ notFound(resp)

(***************************************************************************)
(* Properties of recalculations that run at the same time.                 *)
(***************************************************************************)
\* C12: with review requests on the same tour in progress at the same
\* time, once every recalculation they triggered has finished, each tour's
\* ratingsQuantity is the number of reviews stored for it, and its rating
\* fields are what a recalculation run now would write: no count or
\* average is left stale.
C12_NoStaleRatingsOnceRecalculated ==
    (busy = {}) =>
        \A t \in TourIds :
            /\ tours[t].ratingsQuantity
                   = Cardinality({i \in DOMAIN reviews : reviews[i].tour = t})
            /\ tours[t] = writeRatings(t, aggregateStats(t))[t]

====
